---------------------------- MODULE Spec2Model ----------------------------
(***************************************************************************)
(* IntrusiveBTree (src/btree_intrusive.h): an order-statistics B-tree.     *)
(*                                                                         *)
(* The heap is a function from node identities (addresses) to node         *)
(* records; NULL is the null pointer.  Arrays are kept as sequences of     *)
(* their occupied prefix (keys[0..len-1], children[0..len]); C++ index i   *)
(* is sequence index i + 1.  The header is modelled as it is built by      *)
(* default (no NDEBUG): a failing assert, or an access outside a node's    *)
(* arrays, ends the program; "err" records which one.                      *)
(*                                                                         *)
(* ThreadPool (src/thread_pool.h) and hwstat's GlobalStat                  *)
(* (src/unnamed/part_000) follow the tree, each with its own variables,    *)
(* initial condition and specification; a specification of one program     *)
(* keeps the variables of the others at a fixed value.                     *)
(***************************************************************************)
EXTENDS Integers, Sequences, FiniteSets, TLC

VARIABLES ORDER,    \* the template parameter of the tree under test
          heap,     \* allocated nodes: node identity -> node record
          root,     \* IntrusiveBTree::root
          failed,   \* "none", or the assertion / access that ended the program
          live,     \* history: key -> value of the latest insert not followed by a remove
          lastOp    \* history: the public call that produced this state, with its result

\* ThreadPool (src/thread_pool.h)
VARIABLES tasks,             \* ThreadPool::tasks, the queue of task identities
          num_busy_threads,  \* ThreadPool::num_busy_threads
          over,              \* ThreadPool::over
          mtx,               \* ThreadPool::mtx: the thread holding it, or NULL
          pc,                \* thread -> where it stands in slave, enqueue, waitFinish, ~ThreadPool
          tsk,               \* worker -> the task it dequeued (slave's local tsk)
          accepted,          \* history: the number of tasks pushed by enqueue
          executed           \* history: task -> the number of times tsk() has run it

\* hwstat::GlobalStat<PerThreadCounter> (src/unnamed/part_000)
VARIABLES statAgg,    \* GlobalStat::agg
          instances,  \* GlobalStat::instances, the registered per-thread counters
          cnt,        \* thread -> PerThreadCounter::cnt of its counter
          statMtx,    \* GlobalStat::mtx: the thread holding it, or NULL
          spc,        \* thread -> where it stands in reg, dereg, calcStat
          nagg,       \* calcStat's local nagg in the reading thread; what it returned
          it,         \* calcStat's loop: the instance read last, 0 before the first
          counted     \* history: counter -> how many times the calcStat in progress
                      \* has taken its contribution (through agg or from the counter)

treeVars == <<ORDER, heap, root, failed, live, lastOp>>
poolVars == <<tasks, num_busy_threads, over, mtx, pc, tsk, accepted, executed>>
statVars == <<statAgg, instances, cnt, statMtx, spc, nagg, it, counted>>
vars == <<treeVars, poolVars, statVars>>

----------------------------------------------------------------------------
\* Bounds of the model
MinOrder   == 3    \* static_assert(ORDER >= 3)
MaxOrder   == 4
MaxKey     == 3    \* keys of Spec
MaxVal     == 2    \* values of Spec
MaxSize    == 4    \* Spec inserts while size() < MaxSize
MaxSetKey  == 4    \* keys of SpecSet
MaxSetSize == 5    \* SpecSet inserts while size() < MaxSetSize
MaxScenarioKey     == 21   \* SpecAscending inserts 1..MaxScenarioKey
MaxScenarioRemoves == 1    \* SpecAscending removes at most this many keys
MaxSignedKey  == 3    \* SpecSigned inserts keys -MaxSignedKey..MaxSignedKey
MaxSignedSize == 3    \* SpecSigned inserts while size() < MaxSignedSize
MaxEveryOtherKeys  == 20   \* SpecEveryOther inserts this many keys
KeyStep            == 10   \* SpecEveryOther inserts KeyStep, 2 * KeyStep, ...
NumWorkers == 2    \* ThreadPool(thread_num)
NumClients == 2    \* threads calling enqueue and waitFinish
MaxTasks   == 2    \* enqueue is called at most this many times
MaxGarbage == 1    \* an uninitialized int reads as one of -MaxGarbage..MaxGarbage

Orders  == MinOrder..MaxOrder
Keys    == 1..MaxKey
Vals    == 1..MaxVal
SetKeys == 1..MaxSetKey
ScenarioKeys == 1..MaxScenarioKey
\* every key a state of either specification can hold, and one beyond
AllKeys == 1..((IF MaxKey > MaxSetKey THEN MaxKey ELSE MaxSetKey) + 1)
\* the value insert(key) stores when the caller passes none (val = {})
Unit == 1

NULL == 0

----------------------------------------------------------------------------
\* Array helpers (std::move / std::move_backward on the occupied prefix)

\* shift s[i..] right by one and store x at C++ index i
InsertAt(s, i, x) == SubSeq(s, 1, i) \o <<x>> \o SubSeq(s, i + 1, Len(s))

\* shift s[i+1..] left by one over C++ index i
RemoveAt(s, i) == SubSeq(s, 1, i) \o SubSeq(s, i + 2, Len(s))

\* overwrite C++ index i
SetAt(s, i, x) == [s EXCEPT ![i + 1] = x]

RECURSIVE SumSizes(_, _)
SumSizes(h, cs) == IF cs = <<>> THEN 0 ELSE h[Head(cs)].size + SumSizes(h, Tail(cs))

MaxOf(S) == CHOOSE m \in S : \A x \in S : x <= m

\* operator new: the fresh node's identity
NewId(h) == IF DOMAIN h = {} THEN 1 ELSE MaxOf(DOMAIN h) + 1

----------------------------------------------------------------------------
\* Node storage

BTreeLeaf(parent) ==
    [isLeaf |-> TRUE, len |-> 0, size |-> 0, parent |-> parent,
     keys |-> <<>>, vals |-> <<>>, children |-> <<>>]

BTreeNode(parent) ==
    [isLeaf |-> FALSE, len |-> 0, size |-> 0, parent |-> parent,
     keys |-> <<>>, vals |-> <<>>, children |-> <<>>]

\* Cmp is std::less<K>
Cmp(a, b) == a < b

\* smallest index whose key is not less than key, len if there is none
locate(n, key) ==
    IF \E i \in 1..n.len : ~Cmp(n.keys[i], key)
    THEN (CHOOSE i \in 1..n.len : /\ ~Cmp(n.keys[i], key)
                                  /\ \A j \in 1..(i - 1) : Cmp(n.keys[j], key)) - 1
    ELSE n.len

\* An execution state threaded through the private methods:
\* h the heap, err the failure that ended the program (or "none"),
\* ret the bool result of doRemove
Ok(h) == [h |-> h, err |-> "none", ret |-> FALSE]
Fail(t, why) == [t EXCEPT !.err = why]

----------------------------------------------------------------------------
\* Search

RECURSIVE doFind(_, _, _)
doFind(h, node, key) ==
    LET n   == h[node]
        idx == locate(n, key)
    IN  IF idx < n.len /\ ~Cmp(key, n.keys[idx + 1])
        THEN [node |-> node, idx |-> idx]
        ELSE IF ~n.isLeaf
             THEN doFind(h, n.children[idx + 1], key)
             ELSE [node |-> NULL, idx |-> 0]

find(h, r, key) == doFind(h, r, key)

valid(cursor) == cursor.node # NULL
CursorKey(h, cursor) == h[cursor.node].keys[cursor.idx + 1]
CursorVal(h, cursor) == h[cursor.node].vals[cursor.idx + 1]

----------------------------------------------------------------------------
\* Insertion

\* splitChild with the new sibling always allocated as a leaf (new BTreeLeaf),
\* whatever the child that is split
splitChildLeafSibling(t, parent, idx) ==
    IF t.err # "none" THEN t ELSE
    LET h     == t.h
        p     == h[parent]
        child == p.children[idx + 1]
        c     == h[child]
    IN  IF c.len # ORDER - 1 THEN Fail(t, "assert: child->len == ORDER - 1")
        ELSE IF p.len >= ORDER - 1 THEN Fail(t, "out of range: splitChild parent full")
        ELSE
        LET newChild == NewId(h)
            half     == ORDER \div 2
            moved    == IF c.isLeaf THEN <<>> ELSE SubSeq(c.children, half + 1, ORDER)
            agg      == SumSizes(h, moved)
            nlen     == ORDER - 1 - half
            nc       == [isLeaf |-> TRUE, len |-> nlen, size |-> nlen + agg,
                         parent |-> parent,
                         keys |-> SubSeq(c.keys, half + 1, ORDER - 1),
                         vals |-> SubSeq(c.vals, half + 1, ORDER - 1),
                         children |-> moved]
            c2       == [c EXCEPT !.len = half - 1,
                                  !.size = c.size - (nc.size + 1),
                                  !.keys = SubSeq(c.keys, 1, half - 1),
                                  !.vals = SubSeq(c.vals, 1, half - 1),
                                  !.children = IF c.isLeaf THEN <<>>
                                               ELSE SubSeq(c.children, 1, half)]
            p2       == [p EXCEPT !.keys = InsertAt(p.keys, idx, c.keys[half]),
                                  !.vals = InsertAt(p.vals, idx, c.vals[half]),
                                  !.children = InsertAt(p.children, idx + 1, newChild),
                                  !.len = p.len + 1]
            movedSet == {moved[i] : i \in 1..Len(moved)}
            h2       == [i \in DOMAIN h \cup {newChild} |->
                            IF i = newChild THEN nc
                            ELSE IF i = child THEN c2
                            ELSE IF i = parent THEN p2
                            ELSE IF i \in movedSet THEN [h[i] EXCEPT !.parent = newChild]
                            ELSE h[i]]
        IN  [t EXCEPT !.h = h2]

splitChild(t, parent, idx) ==
    IF t.err # "none" THEN t ELSE
    LET h     == t.h
        p     == h[parent]
        child == p.children[idx + 1]
        c     == h[child]
    IN  IF c.len # ORDER - 1 THEN Fail(t, "assert: child->len == ORDER - 1")
        ELSE IF p.len >= ORDER - 1 THEN Fail(t, "out of range: splitChild parent full")
        ELSE
        LET newChild == NewId(h)
            half     == ORDER \div 2
            moved    == IF c.isLeaf THEN <<>> ELSE SubSeq(c.children, half + 1, ORDER)
            agg      == SumSizes(h, moved)
            nlen     == ORDER - 1 - half
            nc       == [isLeaf |-> c.isLeaf, len |-> nlen, size |-> nlen + agg,
                         parent |-> parent,
                         keys |-> SubSeq(c.keys, half + 1, ORDER - 1),
                         vals |-> SubSeq(c.vals, half + 1, ORDER - 1),
                         children |-> moved]
            c2       == [c EXCEPT !.len = half - 1,
                                  !.size = c.size - (nc.size + 1),
                                  !.keys = SubSeq(c.keys, 1, half - 1),
                                  !.vals = SubSeq(c.vals, 1, half - 1),
                                  !.children = IF c.isLeaf THEN <<>>
                                               ELSE SubSeq(c.children, 1, half)]
            p2       == [p EXCEPT !.keys = InsertAt(p.keys, idx, c.keys[half]),
                                  !.vals = InsertAt(p.vals, idx, c.vals[half]),
                                  !.children = InsertAt(p.children, idx + 1, newChild),
                                  !.len = p.len + 1]
            movedSet == {moved[i] : i \in 1..Len(moved)}
            h2       == [i \in DOMAIN h \cup {newChild} |->
                            IF i = newChild THEN nc
                            ELSE IF i = child THEN c2
                            ELSE IF i = parent THEN p2
                            ELSE IF i \in movedSet THEN [h[i] EXCEPT !.parent = newChild]
                            ELSE h[i]]
        IN  [t EXCEPT !.h = h2]

RECURSIVE insertNonFull(_, _, _, _)
insertNonFull(t, node, key, val) ==
    IF t.err # "none" THEN t ELSE
    LET h   == t.h
        n   == h[node]
        idx == locate(n, key)
    IN  IF n.isLeaf
        THEN IF n.len >= ORDER - 1
             THEN Fail(t, "out of range: insertNonFull leaf full")
             ELSE [t EXCEPT !.h[node] =
                      [n EXCEPT !.keys = InsertAt(n.keys, idx, key),
                                !.vals = InsertAt(n.vals, idx, val),
                                !.len = n.len + 1,
                                !.size = n.size + 1]]
        ELSE LET full == h[n.children[idx + 1]].len = ORDER - 1
                 \* node->size++ once the recursive call has returned
                 sizeUp(t2) == IF t2.err # "none" THEN t2
                               ELSE [t2 EXCEPT !.h[node].size = @ + 1]
                 \* the descent, t1 the state after the split (if any)
                 descend(t1) ==
                    IF t1.err # "none" THEN t1 ELSE
                    LET n1   == t1.h[node]
                        idx1 == IF full /\ key > n1.keys[idx + 1] THEN idx + 1 ELSE idx
                    IN  sizeUp(insertNonFull(t1, n1.children[idx1 + 1], key, val))
             IN  descend(IF full THEN splitChild(t, node, idx) ELSE t)

\* the result of a public call: the heap, the failure (if any), the bool
\* returned and the root after the call
Result(t, r) == [h |-> t.h, err |-> t.err, ret |-> t.ret, root |-> r]

\* the public insert without root->parent = newRoot
insertNoParent(h, r, key, val) ==
    IF h[r].len = ORDER - 1
    THEN LET newRoot == NewId(h)
             nr      == [BTreeNode(NULL) EXCEPT !.children = <<r>>, !.size = h[r].size]
             h1      == [i \in DOMAIN h \cup {newRoot} |->
                            IF i = newRoot THEN nr
                            ELSE IF i = r THEN h[r]
                            ELSE h[i]]
         IN  Result(insertNonFull(splitChild(Ok(h1), newRoot, 0), newRoot, key, val),
                    newRoot)
    ELSE Result(insertNonFull(Ok(h), r, key, val), r)

\* the public insert
insert(h, r, key, val) ==
    IF h[r].len = ORDER - 1
    THEN LET newRoot == NewId(h)
             nr      == [BTreeNode(NULL) EXCEPT !.children = <<r>>, !.size = h[r].size]
             h1      == [i \in DOMAIN h \cup {newRoot} |->
                            IF i = newRoot THEN nr
                            ELSE IF i = r THEN [h[r] EXCEPT !.parent = newRoot]
                            ELSE h[i]]
         IN  Result(insertNonFull(splitChild(Ok(h1), newRoot, 0), newRoot, key, val),
                    newRoot)
    ELSE Result(insertNonFull(Ok(h), r, key, val), r)

----------------------------------------------------------------------------
\* Deletion

\* the cursor of the right-most entry below children[idx]; err when the assert fails
RECURSIVE RightMost(_, _)
RightMost(h, cur) == IF h[cur].isLeaf THEN cur
                     ELSE RightMost(h, h[cur].children[h[cur].len + 1])

RECURSIVE LeftMost(_, _)
LeftMost(h, cur) == IF h[cur].isLeaf THEN cur ELSE LeftMost(h, h[cur].children[1])

getPredecessor(h, node, idx) ==
    LET cur == RightMost(h, h[node].children[idx + 1])
    IN  [node |-> cur, idx |-> h[cur].len - 1,
         err |-> IF h[cur].len > 0 THEN "none" ELSE "assert: cur->len > 0"]

getSuccessor(h, node, idx) ==
    LET cur == LeftMost(h, h[node].children[idx + 2])
    IN  [node |-> cur, idx |-> 0,
         err |-> IF h[cur].len > 0 THEN "none" ELSE "assert: cur->len > 0"]

\* merge with child->size += sibling->size, the separator not counted
mergeSizeOfHalves(t, node, idx) ==
    IF t.err # "none" THEN t ELSE
    LET h == t.h
        n == h[node]
    IN  IF idx < 0 \/ idx + 1 > n.len
        THEN Fail(t, "out of range: merge children[idx]")
        ELSE
        LET child   == n.children[idx + 1]
            sibling == n.children[idx + 2]
            c       == h[child]
            s       == h[sibling]
        IN  IF ~(c.len <= ORDER \div 2 - 1 /\ s.len <= ORDER \div 2 - 1)
            THEN Fail(t, "assert: child->len <= ORDER / 2 - 1 && sibling->len <= ORDER / 2 - 1")
            ELSE
            LET c2 == [c EXCEPT !.keys = c.keys \o <<n.keys[idx + 1]>> \o s.keys,
                                !.vals = c.vals \o <<n.vals[idx + 1]>> \o s.vals,
                                !.children = IF c.isLeaf THEN c.children
                                             ELSE c.children \o s.children,
                                !.len = c.len + s.len + 1,
                                !.size = c.size + s.size]
                n2 == [n EXCEPT !.keys = RemoveAt(n.keys, idx),
                                !.vals = RemoveAt(n.vals, idx),
                                !.children = RemoveAt(n.children, idx + 1),
                                !.len = n.len - 1]
                adopted == IF c.isLeaf THEN {}
                           ELSE {s.children[i] : i \in 1..Len(s.children)}
                h2 == [i \in DOMAIN h \ {sibling} |->
                          IF i = child THEN c2
                          ELSE IF i = node THEN n2
                          ELSE IF i \in adopted THEN [h[i] EXCEPT !.parent = child]
                          ELSE h[i]]
            IN  [t EXCEPT !.h = h2]

merge(t, node, idx) ==
    IF t.err # "none" THEN t ELSE
    LET h == t.h
        n == h[node]
    IN  IF idx < 0 \/ idx + 1 > n.len
        THEN Fail(t, "out of range: merge children[idx]")
        ELSE
        LET child   == n.children[idx + 1]
            sibling == n.children[idx + 2]
            c       == h[child]
            s       == h[sibling]
        IN  IF ~(c.len <= ORDER \div 2 - 1 /\ s.len <= ORDER \div 2 - 1)
            THEN Fail(t, "assert: child->len <= ORDER / 2 - 1 && sibling->len <= ORDER / 2 - 1")
            ELSE
            LET c2 == [c EXCEPT !.keys = c.keys \o <<n.keys[idx + 1]>> \o s.keys,
                                !.vals = c.vals \o <<n.vals[idx + 1]>> \o s.vals,
                                !.children = IF c.isLeaf THEN c.children
                                             ELSE c.children \o s.children,
                                !.len = c.len + s.len + 1,
                                !.size = c.size + s.size + 1]
                n2 == [n EXCEPT !.keys = RemoveAt(n.keys, idx),
                                !.vals = RemoveAt(n.vals, idx),
                                !.children = RemoveAt(n.children, idx + 1),
                                !.len = n.len - 1]
                adopted == IF c.isLeaf THEN {}
                           ELSE {s.children[i] : i \in 1..Len(s.children)}
                h2 == [i \in DOMAIN h \ {sibling} |->
                          IF i = child THEN c2
                          ELSE IF i = node THEN n2
                          ELSE IF i \in adopted THEN [h[i] EXCEPT !.parent = child]
                          ELSE h[i]]
            IN  [t EXCEPT !.h = h2]

\* borrowFromPrev without the size of the moved child: sizes change by one
borrowFromPrevByOne(t, node, idx) ==
    IF t.err # "none" THEN t ELSE
    LET h       == t.h
        n       == h[node]
        child   == n.children[idx + 1]
        sibling == n.children[idx]
        c       == h[child]
        s       == h[sibling]
    IN  IF c.len >= ORDER - 1 THEN Fail(t, "out of range: borrowFromPrev child full")
        ELSE
        LET gc    == IF c.isLeaf THEN NULL ELSE s.children[s.len + 1]
            gsize == 0
            c2 == [c EXCEPT !.keys = <<n.keys[idx]>> \o c.keys,
                            !.vals = <<n.vals[idx]>> \o c.vals,
                            !.children = IF c.isLeaf THEN c.children
                                         ELSE <<gc>> \o c.children,
                            !.len = c.len + 1,
                            !.size = c.size + gsize + 1]
            s2 == [s EXCEPT !.keys = SubSeq(s.keys, 1, s.len - 1),
                            !.vals = SubSeq(s.vals, 1, s.len - 1),
                            !.children = IF c.isLeaf THEN s.children
                                         ELSE SubSeq(s.children, 1, s.len),
                            !.len = s.len - 1,
                            !.size = s.size - gsize - 1]
            n2 == [n EXCEPT !.keys = SetAt(n.keys, idx - 1, s.keys[s.len]),
                            !.vals = SetAt(n.vals, idx - 1, s.vals[s.len])]
            h2 == [i \in DOMAIN h |->
                      IF i = child THEN c2
                      ELSE IF i = sibling THEN s2
                      ELSE IF i = node THEN n2
                      ELSE IF i = gc THEN [h[i] EXCEPT !.parent = child]
                      ELSE h[i]]
        IN  [t EXCEPT !.h = h2]

borrowFromPrev(t, node, idx) ==
    IF t.err # "none" THEN t ELSE
    LET h       == t.h
        n       == h[node]
        child   == n.children[idx + 1]
        sibling == n.children[idx]
        c       == h[child]
        s       == h[sibling]
    IN  IF c.len >= ORDER - 1 THEN Fail(t, "out of range: borrowFromPrev child full")
        ELSE
        LET gc    == IF c.isLeaf THEN NULL ELSE s.children[s.len + 1]
            gsize == IF c.isLeaf THEN 0 ELSE h[gc].size
            c2 == [c EXCEPT !.keys = <<n.keys[idx]>> \o c.keys,
                            !.vals = <<n.vals[idx]>> \o c.vals,
                            !.children = IF c.isLeaf THEN c.children
                                         ELSE <<gc>> \o c.children,
                            !.len = c.len + 1,
                            !.size = c.size + gsize + 1]
            s2 == [s EXCEPT !.keys = SubSeq(s.keys, 1, s.len - 1),
                            !.vals = SubSeq(s.vals, 1, s.len - 1),
                            !.children = IF c.isLeaf THEN s.children
                                         ELSE SubSeq(s.children, 1, s.len),
                            !.len = s.len - 1,
                            !.size = s.size - gsize - 1]
            n2 == [n EXCEPT !.keys = SetAt(n.keys, idx - 1, s.keys[s.len]),
                            !.vals = SetAt(n.vals, idx - 1, s.vals[s.len])]
            h2 == [i \in DOMAIN h |->
                      IF i = child THEN c2
                      ELSE IF i = sibling THEN s2
                      ELSE IF i = node THEN n2
                      ELSE IF i = gc THEN [h[i] EXCEPT !.parent = child]
                      ELSE h[i]]
        IN  [t EXCEPT !.h = h2]

borrowFromNext(t, node, idx) ==
    IF t.err # "none" THEN t ELSE
    LET h       == t.h
        n       == h[node]
        child   == n.children[idx + 1]
        sibling == n.children[idx + 2]
        c       == h[child]
        s       == h[sibling]
    IN  IF c.len >= ORDER - 1 THEN Fail(t, "out of range: borrowFromNext child full")
        ELSE
        LET gc    == IF c.isLeaf THEN NULL ELSE s.children[1]
            gsize == IF c.isLeaf THEN 0 ELSE h[gc].size
            c2 == [c EXCEPT !.keys = c.keys \o <<n.keys[idx + 1]>>,
                            !.vals = c.vals \o <<n.vals[idx + 1]>>,
                            !.children = IF c.isLeaf THEN c.children
                                         ELSE c.children \o <<gc>>,
                            !.len = c.len + 1,
                            !.size = c.size + gsize + 1]
            s2 == [s EXCEPT !.keys = Tail(s.keys),
                            !.vals = Tail(s.vals),
                            !.children = IF c.isLeaf THEN s.children
                                         ELSE Tail(s.children),
                            !.len = s.len - 1,
                            !.size = s.size - gsize - 1]
            n2 == [n EXCEPT !.keys = SetAt(n.keys, idx, s.keys[1]),
                            !.vals = SetAt(n.vals, idx, s.vals[1])]
            h2 == [i \in DOMAIN h |->
                      IF i = child THEN c2
                      ELSE IF i = sibling THEN s2
                      ELSE IF i = node THEN n2
                      ELSE IF i = gc THEN [h[i] EXCEPT !.parent = child]
                      ELSE h[i]]
        IN  [t EXCEPT !.h = h2]

\* fill that repairs nothing
fillNothing(t, node, idx) == t

fill(t, node, idx) ==
    IF t.err # "none" THEN t ELSE
    LET h == t.h
        n == h[node]
        targetIdx == IF idx # n.len THEN idx ELSE idx - 1
    IN  IF idx # 0 /\ h[n.children[idx]].len >= ORDER \div 2
        THEN borrowFromPrev(t, node, idx)
        ELSE IF idx # n.len /\ h[n.children[idx + 2]].len >= ORDER \div 2
        THEN borrowFromNext(t, node, idx)
        ELSE merge(t, node, targetIdx)

\* the size fix-up of removeFromLeaf with the loop cut to its first round:
\* only the leaf's parent is decremented
AncestorsParentOnly(h, n) == IF n = NULL THEN {} ELSE {n}

\* the nodes the loop of removeFromLeaf visits: n, n->parent, ... up to the root
RECURSIVE Ancestors(_, _)
Ancestors(h, n) == IF n = NULL THEN {} ELSE {n} \cup Ancestors(h, h[n].parent)

removeFromLeaf(t, node, idx) ==
    IF t.err # "none" THEN t ELSE
    LET h == t.h
        n == h[node]
    IN  IF ~(idx < n.len) THEN Fail(t, "assert: idx < node->len")
        ELSE
        LET n2   == [n EXCEPT !.keys = RemoveAt(n.keys, idx),
                              !.vals = RemoveAt(n.vals, idx),
                              !.len = n.len - 1,
                              !.size = n.size - 1]
            \* keys[0] after the shift; the slot keeps its old content
            \* when the leaf has become empty
            key0 == IF n2.len > 0 THEN n2.keys[1] ELSE n.keys[1]
            anc  == Ancestors(h, n.parent)
            h2   == [i \in DOMAIN h |->
                        IF i = node THEN n2
                        ELSE IF i \in anc THEN [h[i] EXCEPT !.size = @ - 1]
                        ELSE h[i]]
            t2   == [t EXCEPT !.h = h2]
        IN  IF n2.len < ORDER \div 2 /\ n.parent # NULL
            THEN LET nIdx == locate(h2[n.parent], key0)
                 IN  IF h2[n.parent].children[nIdx + 1] # node
                     THEN Fail(t2, "assert: node->parent->children[nIdx].ptr == node")
                     ELSE fill(t2, n.parent, nIdx)
            ELSE t2

RECURSIVE doRemove(_, _, _)
RECURSIVE removeFromNonLeaf(_, _, _)

removeFromNonLeaf(t, node, idx) ==
    IF t.err # "none" THEN t ELSE
    LET h == t.h
        n == h[node]
    IN  IF h[n.children[idx + 1]].len >= ORDER \div 2
        THEN LET pred == getPredecessor(h, node, idx)
             IN  IF pred.err # "none" THEN Fail(t, pred.err)
                 ELSE removeFromLeaf(
                        [t EXCEPT !.h[node].keys = SetAt(n.keys, idx, CursorKey(h, pred)),
                                  !.h[node].vals = SetAt(n.vals, idx, CursorVal(h, pred))],
                        pred.node, pred.idx)
        ELSE IF h[n.children[idx + 2]].len >= ORDER \div 2
        THEN LET succ == getSuccessor(h, node, idx)
             IN  IF succ.err # "none" THEN Fail(t, succ.err)
                 ELSE removeFromLeaf(
                        [t EXCEPT !.h[node].keys = SetAt(n.keys, idx, CursorKey(h, succ)),
                                  !.h[node].vals = SetAt(n.vals, idx, CursorVal(h, succ))],
                        succ.node, succ.idx)
        ELSE LET key == n.keys[idx + 1]
                 \* doRemove(node->children[idx], key), t1 the state after the merge
                 recurse(t1) == IF t1.err # "none" THEN t1
                                ELSE doRemove(t1, t1.h[node].children[idx + 1], key)
             IN  recurse(merge(t, node, idx))

\* return false where doRemove returns true
returnFalse(t) == [t EXCEPT !.ret = FALSE]

\* return true
returnTrue(t) == [t EXCEPT !.ret = TRUE]

doRemove(t, node, key) ==
    IF t.err # "none" THEN t ELSE
    LET h   == t.h
        n   == h[node]
        idx == locate(n, key)
    IN  IF idx < n.len /\ ~Cmp(key, n.keys[idx + 1])
        THEN IF n.isLeaf THEN returnTrue(removeFromLeaf(t, node, idx))
             ELSE returnTrue(removeFromNonLeaf(t, node, idx))
        ELSE IF n.isLeaf THEN [t EXCEPT !.ret = FALSE]
        ELSE LET flag == (idx = n.len)
                 \* the descent, t1 the state after the fill (if any)
                 descend(t1) ==
                    IF t1.err # "none" THEN t1 ELSE
                    LET n1 == t1.h[node]
                    IN  IF flag /\ idx > n1.len
                        THEN doRemove(t1, n1.children[idx], key)
                        ELSE doRemove(t1, n1.children[idx + 1], key)
             IN  descend(IF h[n.children[idx + 1]].len < ORDER \div 2
                         THEN fill(t, node, idx) ELSE t)

\* the public remove
remove(h, r, key) ==
    LET \* the root collapse, t the state after doRemove
        collapse(t) ==
            IF t.err = "none" /\ ~t.h[r].isLeaf /\ t.h[r].len = 0
            THEN LET nr == t.h[r].children[1]
                 IN  [h |-> [i \in DOMAIN t.h \ {r} |->
                                IF i = nr THEN [t.h[i] EXCEPT !.parent = NULL] ELSE t.h[i]],
                      err |-> t.err, ret |-> t.ret, root |-> nr]
            ELSE Result(t, r)
    IN  collapse(doRemove(Ok(h), r, key))

----------------------------------------------------------------------------
\* Order statistics

\* the loop of getRank without the addition made on an exact match in an
\* internal node (rank += children[idx]->size)
RECURSIVE RankFromNoMatchedChild(_, _, _, _)
RankFromNoMatchedChild(h, node, key, rank) ==
    LET n     == h[node]
        idx   == locate(n, key)
        left  == IF n.isLeaf THEN 0 ELSE SumSizes(h, SubSeq(n.children, 1, idx))
        rank1 == rank + idx + left
    IN  IF idx < n.len /\ ~Cmp(key, n.keys[idx + 1]) THEN rank1
        ELSE IF n.isLeaf THEN rank1
        ELSE RankFromNoMatchedChild(h, n.children[idx + 1], key, rank1)

\* the loop of getRank, entered at node with the rank accumulated so far
RECURSIVE RankFrom(_, _, _, _)
RankFrom(h, node, key, rank) ==
    LET n     == h[node]
        idx   == locate(n, key)
        left  == IF n.isLeaf THEN 0 ELSE SumSizes(h, SubSeq(n.children, 1, idx))
        rank1 == rank + idx + left
    IN  IF idx < n.len /\ ~Cmp(key, n.keys[idx + 1])
        THEN IF n.isLeaf THEN rank1 ELSE rank1 + h[n.children[idx + 1]].size
        ELSE IF n.isLeaf THEN rank1
        ELSE RankFrom(h, n.children[idx + 1], key, rank1)

getRank(h, r, key) == RankFrom(h, r, key, 0)

size(h, r) == IF r # NULL THEN h[r].size ELSE 0

----------------------------------------------------------------------------
\* Validation: traverse walks the tree in order and throws on the first check
\* that fails.  The walk carries the last key seen; its result is the error
\* thrown ("none" when the walk completes) and the last key.

Walked(last) == [err |-> "none", last |-> last]
Thrown(what, last) == [err |-> what, last |-> last]

\* the initial value of last in traverse
NoKey == -1

\* the loop of doTraverse over the keys of a leaf, from index i
RECURSIVE doTraverseLeaf(_, _, _)
doTraverseLeaf(n, i, last) ==
    IF i = n.len THEN Walked(last)
    ELSE IF n.keys[i + 1] < last THEN Thrown("order violation", last)
    ELSE doTraverseLeaf(n, i + 1, n.keys[i + 1])

\* BTreeNodePtr::operator bool
AsBool(p) == p # NULL

RECURSIVE doTraverse(_, _, _, _)
RECURSIVE doTraverseNode(_, _, _, _, _)

\* the loop of doTraverse over the children and keys of an internal node,
\* from index i, the walk of children[len] included
doTraverseNode(h, r, node, i, last) ==
    LET n == h[node]
        c == doTraverse(h, r, n.children[i + 1], last)
    IN  IF c.err # "none" \/ i = n.len THEN c
        ELSE IF n.keys[i + 1] < c.last THEN Thrown("order violation", c.last)
        ELSE doTraverseNode(h, r, node, i + 1, n.keys[i + 1])

\* node != root compares two BTreeNodePtr, which has operator== and operator
\* bool but no operator!=: both sides are converted to bool
doTraverse(h, r, node, last) ==
    LET n == h[node]
    IN  IF n.parent # NULL /\ n.len < ORDER \div 2 - 1
        THEN Thrown("node length is less than ORDER / 2 - 1", last)
        ELSE IF n.parent = NULL /\ AsBool(node) # AsBool(r)
        THEN Thrown("node parent is invalid, but not root", last)
        ELSE IF n.isLeaf THEN doTraverseLeaf(n, 0, last)
        ELSE LET w == doTraverseNode(h, r, node, 0, last)
             IN  IF w.err # "none" THEN w
                 ELSE IF SumSizes(h, SubSeq(n.children, 1, n.len + 1)) + n.len # n.size
                 THEN Thrown("size mismatch: "
                                \o ToString(SumSizes(h, SubSeq(n.children, 1, n.len + 1)) + n.len)
                                \o " != " \o ToString(n.size), w.last)
                 ELSE w

\* the public traverse: the error it throws, "none" when it returns
traverse(h, r) == doTraverse(h, r, r, NoKey).err

----------------------------------------------------------------------------
\* Destruction: the nodes deleted by ptr.destruct(), in the order of their
\* deletion.  ~BTreeNode destroys children[0..len], unless len is 0.

RECURSIVE destruct(_, _)
RECURSIVE destructAll(_, _)
destruct(h, ptr) ==
    IF ptr = NULL THEN <<>>
    ELSE IF h[ptr].isLeaf \/ h[ptr].len = 0 THEN <<ptr>>
    ELSE destructAll(h, SubSeq(h[ptr].children, 1, h[ptr].len + 1)) \o <<ptr>>
destructAll(h, cs) == IF cs = <<>> THEN <<>>
                      ELSE destruct(h, Head(cs)) \o destructAll(h, Tail(cs))

\* ~IntrusiveBTree
destroyTree(h, r) == destruct(h, r)

----------------------------------------------------------------------------
\* Node identities stand for addresses; the program never orders or prints
\* them, so a state is kept with its nodes numbered in pre-order from the root
\* (allocated nodes the root does not reach follow, in their old order).

RECURSIVE PreOrder(_, _)
RECURSIVE PreOrderAll(_, _)
PreOrder(h, node) == <<node>> \o PreOrderAll(h, h[node].children)
PreOrderAll(h, cs) == IF cs = <<>> THEN <<>>
                      ELSE PreOrder(h, Head(cs)) \o PreOrderAll(h, Tail(cs))

RECURSIVE Ascending(_)
Ascending(S) == IF S = {} THEN <<>>
                ELSE LET m == CHOOSE x \in S : \A y \in S : x <= y
                     IN  <<m>> \o Ascending(S \ {m})

Canon(h, r) ==
    LET reach == PreOrder(h, r)
        order == reach \o Ascending(DOMAIN h \ {reach[i] : i \in 1..Len(reach)})
        new(old) == IF old = NULL \/ old \notin DOMAIN h THEN NULL
                    ELSE CHOOSE i \in 1..Len(order) : order[i] = old
    IN  [i \in 1..Len(order) |->
            LET n == h[order[i]]
            IN  [n EXCEPT !.parent = new(n.parent),
                          !.children = [j \in 1..Len(n.children) |-> new(n.children[j])]]]

----------------------------------------------------------------------------
\* The program: a tree is constructed, then insert and remove are called

\* no ThreadPool has been constructed
NoPool ==
    /\ tasks = <<>>
    /\ num_busy_threads = 0
    /\ over = FALSE
    /\ mtx = NULL
    /\ pc = <<>>
    /\ tsk = <<>>
    /\ accepted = 0
    /\ executed = <<>>

\* no GlobalStat has been defined
NoStat ==
    /\ statAgg = 0
    /\ instances = {}
    /\ cnt = <<>>
    /\ statMtx = NULL
    /\ spc = <<>>
    /\ nagg = 0
    /\ it = 0
    /\ counted = <<>>

Init ==
    /\ ORDER \in Orders
    /\ heap = (1 :> BTreeLeaf(NULL))
    /\ root = 1
    /\ failed = "none"
    /\ live = <<>>
    /\ lastOp = [op |-> "new", key |-> 0, ret |-> FALSE]
    /\ NoPool
    /\ NoStat

\* merge(node, -1) reads children[-1] and keys[-1], the bytes in front of
\* the node's arrays, and goes on with the pointer it read: undefined
\* behaviour.  What a build does depends on those bytes: the pointer cannot
\* be dereferenced and the program is stopped by a signal; or it can, and
\* merge's assertion on the lens fails, or the pointed-to bytes pass for an
\* internal node and children() of the leaf sibling fails its assertion, or
\* they pass for a leaf and merge runs to its end: it writes through the
\* pointer, decrements node->len from 0, deletes children[0], and the public
\* call returns with a tree that the source does not define.
Damaged == "undefined: merge children[idx] returned"

Outcomes(err) ==
    IF err = "out of range: merge children[idx]"
    THEN {"out of range: merge children[idx]",
          "assert: child->len <= ORDER / 2 - 1 && sibling->len <= ORDER / 2 - 1",
          "assert: !isLeaf()",
          Damaged}
    ELSE {err}

\* the state after a public call with result r: the heap is kept in canonical
\* numbering; a failed call leaves the program stopped; a call that returns
\* from undefined behaviour returns either bool, and the tree it leaves is
\* followed no further
Returned(r, op, k) ==
    /\ failed' \in Outcomes(r.err)
    /\ heap' = IF r.err = "none" THEN Canon(r.h, r.root) ELSE heap
    /\ root' = IF r.err = "none" THEN 1 ELSE root
    /\ \E ret \in (IF failed' = Damaged THEN BOOLEAN ELSE {r.ret}) :
           lastOp' = [op |-> op, key |-> k, ret |-> ret]

InsertOp(k, v, cap) ==
    /\ failed = "none"
    /\ size(heap, root) < cap
    /\ Returned(insert(heap, root, k, v), "insert", k)
    /\ live' = [x \in DOMAIN live \cup {k} |-> IF x = k THEN v ELSE live[x]]
    /\ UNCHANGED <<ORDER, poolVars, statVars>>

\* insert(key, val)
Insert(k, v) == InsertOp(k, v, MaxSize)

\* insert(key), the value defaulted: the tree used as a set
InsertKey(k) == InsertOp(k, Unit, MaxSetSize)

Remove(k) ==
    /\ failed = "none"
    /\ Returned(remove(heap, root, k), "remove", k)
    /\ live' = [x \in DOMAIN live \ {k} |-> live[x]]
    /\ UNCHANGED <<ORDER, poolVars, statVars>>

Next ==
    \/ \E k \in Keys, v \in Vals : Insert(k, v)
    \/ \E k \in Keys : Remove(k)

Spec == Init /\ [][Next]_vars

NextSet ==
    \/ \E k \in SetKeys : InsertKey(k)
    \/ \E k \in SetKeys : Remove(k)

SpecSet == Init /\ [][NextSet]_vars

\* A workload of ascending keys: 1, 2, 3, ... are inserted in that order, and
\* between the inserts keys below the largest one are removed

\* the largest key inserted so far (it is never removed), 0 before the first
Largest == IF DOMAIN live = {} THEN 0 ELSE MaxOf(DOMAIN live)

\* insert(Largest + 1)
InsertNext ==
    /\ Largest < MaxScenarioKey
    /\ InsertOp(Largest + 1, Unit, MaxScenarioKey + 1)

\* remove(k) for a key k below the largest
RemoveBelow(k) ==
    /\ k < Largest
    /\ Largest - Cardinality(DOMAIN live) < MaxScenarioRemoves
    /\ Remove(k)

NextAscending ==
    \/ InsertNext
    \/ \E k \in ScenarioKeys : RemoveBelow(k)

SpecAscending == Init /\ [][NextAscending]_vars

\* A workload of evenly spaced keys: KeyStep, 2 * KeyStep, ... are inserted in
\* ascending order, then every second key is removed, in ascending order

\* insert of the next key, while no key has been removed
InsertStep ==
    /\ lastOp.op \in {"new", "insert"}
    /\ lastOp.key < KeyStep * MaxEveryOtherKeys
    /\ InsertOp(lastOp.key + KeyStep, Unit, MaxEveryOtherKeys + 1)

\* the key the next remove is called with
NextRemoved == IF lastOp.op = "remove" THEN lastOp.key + 2 * KeyStep ELSE 2 * KeyStep

\* remove of the next of the keys at even positions
RemoveEveryOther ==
    /\ lastOp.op # "new"
    /\ NextRemoved \in DOMAIN live
    /\ Remove(NextRemoved)

NextEveryOther ==
    \/ InsertStep
    \/ RemoveEveryOther

SpecEveryOther == Init /\ [][NextEveryOther]_vars

\* A workload of distinct keys of either sign: insert(k) for keys not in the tree

SignedKeys == (0 - MaxSignedKey)..MaxSignedKey

InsertFresh(k) ==
    /\ k \notin DOMAIN live
    /\ InsertOp(k, Unit, MaxSignedSize)

NextSigned == \E k \in SignedKeys : InsertFresh(k)

SpecSigned == Init /\ [][NextSigned]_vars

----------------------------------------------------------------------------
\* Observations of a state

RECURSIVE InOrder(_, _)
RECURSIVE InOrderFrom(_, _, _)
\* the in-order walk of the subtree of node: its <<key, value>> entries
InOrder(h, node) ==
    IF h[node].isLeaf
    THEN [i \in 1..h[node].len |-> <<h[node].keys[i], h[node].vals[i]>>]
    ELSE InOrderFrom(h, node, 0)
InOrderFrom(h, node, i) ==
    LET n == h[node]
    IN  IF i = n.len THEN InOrder(h, n.children[i + 1])
        ELSE InOrder(h, n.children[i + 1]) \o <<<<n.keys[i + 1], n.vals[i + 1]>>>>
             \o InOrderFrom(h, node, i + 1)

\* the public call that produced this state returned (no assert fired)
Running == failed = "none"

Entries(h, r) == InOrder(h, r)
KeysOf(es) == [i \in 1..Len(es) |-> es[i][1]]
StrictlyIncreasing(ks) == \A i \in 1..(Len(ks) - 1) : ks[i] < ks[i + 1]
\* the number of entries of the tree whose key is k
CountOf(h, r, k) == Cardinality({i \in 1..Len(Entries(h, r)) : Entries(h, r)[i][1] = k})
PresentIn(h, r, k) == CountOf(h, r, k) > 0
\* what find shows of the tree: the <<key, value>> pairs it yields
Findable(h, r) == {<<k, CursorVal(h, find(h, r, k))>> : k \in {j \in AllKeys : valid(find(h, r, j))}}
\* ceil(ORDER / 2) - 1
MinimumFill == (ORDER + 1) \div 2 - 1

----------------------------------------------------------------------------
\* Claims

\* C1: after any sequence of insert and remove calls the in-order walk of the
\* tree yields strictly increasing keys.
C1_OrderInvariant ==
    Running => StrictlyIncreasing(KeysOf(Entries(heap, root)))

\* C2: insert(k, v) on a tree that already contains k overwrites: afterwards
\* the tree holds exactly one entry with key k, find(k) yields v and size()
\* is what it was before the call.
C2_InsertOverwrites ==
    [][(lastOp'.op = "insert" /\ failed' = "none"
          /\ PresentIn(heap, root, lastOp'.key))
       => LET k == lastOp'.key
          IN  /\ CountOf(heap', root', k) = 1
              /\ valid(find(heap', root', k))
              /\ CursorVal(heap', find(heap', root', k)) = live'[k]
              /\ size(heap', root') = size(heap, root)]_vars

\* C3: find(k) is valid exactly when k is live, and then yields the value of
\* the most recent insert(k, v).
C3_FindIffLive ==
    Running =>
      \A k \in AllKeys :
        /\ valid(find(heap, root, k)) <=> k \in DOMAIN live
        /\ valid(find(heap, root, k)) =>
             CursorVal(heap, find(heap, root, k)) = live[k]

\* C4: after remove(k) returns, find(k) is invalid and a second remove(k)
\* returns false.
C4_RemoveThenAbsent ==
    (Running /\ lastOp.op = "remove") =>
      /\ ~valid(find(heap, root, lastOp.key))
      /\ LET again == remove(heap, root, lastOp.key)
         IN  again.err = "none" /\ ~again.ret

\* C5: size() equals the number of distinct live keys.
C5_SizeIsLiveCount ==
    Running => size(heap, root) = Cardinality(DOMAIN live)

\* C6: after every public insert or remove call returns, every internal node
\* has size = len + the sum of its children's sizes, and every leaf has
\* size = len.  (A call that returns from the undefined behaviour of
\* merge(node, -1) has returned as well, and leaves no tree the source
\* defines: the sizes are not consistent in it.)
C6_SizeConsistency ==
    /\ failed # Damaged
    /\ Running =>
         \A n \in DOMAIN heap :
           IF heap[n].isLeaf
           THEN heap[n].size = heap[n].len
           ELSE heap[n].size = heap[n].len
                               + SumSizes(heap, SubSeq(heap[n].children, 1, heap[n].len + 1))

\* C6 witness: a remove has returned true and left a tree of three levels
\* (a leaf removal whose ancestor chain is longer than the parent).
C6_Witness ==
    /\ Running /\ lastOp.op = "remove" /\ lastOp.ret
    /\ \E n \in DOMAIN heap : ~heap[n].isLeaf /\ heap[n].parent # NULL

\* C7: getRank(k) equals the number of live keys strictly less than k, for
\* present and absent k.
C7_RankCountsLive ==
    Running =>
      \A k \in AllKeys :
        getRank(heap, root, k) = Cardinality({j \in DOMAIN live : j < k})

\* C8: in every reachable tree state, for all keys a < b both present in the
\* tree, getRank(a) < getRank(b).  (The state a call leaves when it returns
\* from the undefined behaviour of merge(node, -1) is reachable, and find and
\* getRank are not defined by the source in it.)
C8_RankMonotone ==
    /\ failed # Damaged
    /\ Running =>
         \A a, b \in AllKeys :
           (a < b /\ valid(find(heap, root, a)) /\ valid(find(heap, root, b)))
             => getRank(heap, root, a) < getRank(heap, root, b)

\* C8 witness: a tree of more than one level holding three distinct keys,
\* one of them in the root.
C8_Witness ==
    /\ Running /\ ~heap[root].isLeaf
    /\ Cardinality({k \in AllKeys : valid(find(heap, root, k))}) >= 3
    /\ \E k \in AllKeys : valid(find(heap, root, k)) /\ find(heap, root, k).node = root

\* C9: after every public insert or remove call, every node other than the
\* root holds at least ceil(ORDER / 2) - 1 keys.
C9_MinimumFill ==
    Running => \A n \in DOMAIN heap : n # root => heap[n].len >= MinimumFill

\* C10: remove(k) returns true exactly when k was in the tree before the
\* call; when it returns false, what find yields and size() are as before.
C10_RemoveResult ==
    [][(lastOp'.op = "remove" /\ failed' = "none")
       => /\ lastOp'.ret <=> PresentIn(heap, root, lastOp'.key)
          /\ ~lastOp'.ret => /\ Findable(heap', root') = Findable(heap, root)
                             /\ size(heap', root') = size(heap, root)]_vars

\* C10 witness: a remove has returned false on a tree that is not empty.
C10_Witness ==
    /\ Running /\ lastOp.op = "remove" /\ ~lastOp.ret
    /\ size(heap, root) > 0 /\ ~heap[root].isLeaf

----------------------------------------------------------------------------
\* Further observations

\* the depths, counted from node at depth d, of the leaves below node
RECURSIVE LeafDepths(_, _, _)
LeafDepths(h, node, d) ==
    IF h[node].isLeaf THEN {d}
    ELSE UNION {LeafDepths(h, h[node].children[i], d + 1) : i \in 1..Len(h[node].children)}

\* the failures that are accesses outside a node's fixed-capacity arrays,
\* or follow one: every outcome of merge's read of children[-1] is among
\* them, also merge's assertion and assert(!isLeaf()), which the program
\* reaches only after that read (with children[idx] inside the array these
\* two assertions fail in no state of the specifications)
OutOfRange == {"out of range: splitChild parent full",
               "out of range: insertNonFull leaf full",
               "out of range: borrowFromPrev child full",
               "out of range: borrowFromNext child full"}
                  \cup Outcomes("out of range: merge children[idx]")

\* every key a state of any of the specifications can hold
EveryKey == AllKeys \cup ScenarioKeys

\* find(j) before and after a step: valid in both states with the same value
SameFind(j) ==
    /\ valid(find(heap, root, j)) /\ valid(find(heap', root', j))
    /\ CursorVal(heap', find(heap', root', j)) = CursorVal(heap, find(heap, root, j))

----------------------------------------------------------------------------
\* Claims, continued

\* C11: remove(k) affects only k: every key j # k that find yielded before
\* the call is still found after it, with the same value.
C11_RemoveFrame ==
    [][(lastOp'.op = "remove" /\ failed' = "none")
       => \A j \in EveryKey \ {lastOp'.key} :
            valid(find(heap, root, j)) => SameFind(j)]_vars

\* C12: insert(k, v) affects only k: for every key j # k, find(j) is valid
\* after the call exactly when it was valid before, and yields the same value.
C12_InsertFrame ==
    [][(lastOp'.op = "insert" /\ failed' = "none")
       => \A j \in EveryKey \ {lastOp'.key} :
            /\ valid(find(heap, root, j)) <=> valid(find(heap', root', j))
            /\ valid(find(heap, root, j)) => SameFind(j)]_vars

\* C13: after every public insert or remove call, all leaves of the tree are
\* at the same depth from the root.  (Also after a call that returns from
\* the undefined behaviour of merge(node, -1), which leaves a node with
\* len = 255 above a deleted child: no tree with leaves at one depth.)
C13_LeavesSameDepth ==
    /\ failed # Damaged
    /\ Running => Cardinality(LeafDepths(heap, root, 0)) = 1

\* C13 witness: a remove has returned true and left a tree whose leaves are
\* two levels below the root.
C13_Witness ==
    /\ Running /\ lastOp.op = "remove" /\ lastOp.ret
    /\ LeafDepths(heap, root, 0) = {2}

\* C14: after every public remove call returns, the root has zero keys only
\* if it is a leaf.
C14_RootCollapsed ==
    (Running /\ lastOp.op = "remove") =>
      (heap[root].len = 0 => heap[root].isLeaf)

\* C15: no insert or remove accesses a key, value or child slot outside the
\* arrays of a node, and after it every node holds at most ORDER - 1 keys
\* and every internal node has exactly len + 1 children.
C15_WithinCapacity ==
    /\ failed \notin OutOfRange
    /\ Running =>
         \A n \in DOMAIN heap :
           /\ heap[n].len <= ORDER - 1
           /\ Len(heap[n].keys) = heap[n].len
           /\ Len(heap[n].vals) = heap[n].len
           /\ ~heap[n].isLeaf => Len(heap[n].children) = heap[n].len + 1

\* C16: after every public insert or remove call, the parent of every child
\* of an internal node n is n, and the root has no parent.  (Also after a
\* call that returns from the undefined behaviour of merge(node, -1), which
\* leaves a node with len = 255 whose children[0] is deleted.)
C16_ParentRefs ==
    /\ failed # Damaged
    /\ Running =>
         /\ heap[root].parent = NULL
         /\ \A n \in DOMAIN heap :
              \A i \in 1..Len(heap[n].children) :
                heap[heap[n].children[i]].parent = n

\* C16 witness: an insert has returned and left a tree of three levels, the
\* root with two keys (the root was split, and later a child of the new root).
C16_Witness ==
    /\ Running /\ lastOp.op = "insert"
    /\ heap[root].len = 2
    /\ \E n \in DOMAIN heap : ~heap[n].isLeaf /\ heap[n].parent = root

\* C17: traverse() called after any insert or remove call completes without
\* raising an error.
C17_TraverseNeverRaises ==
    Running => traverse(heap, root) = "none"

\* C18: traverse fails with the order-violation error whenever some key of
\* the in-order walk is not strictly greater than the key before it.
C18_TraverseOrderViolation ==
    (Running /\ ~StrictlyIncreasing(KeysOf(Entries(heap, root))))
      => traverse(heap, root) = "order violation"

\* C19: traverse fails with the under-fill error whenever some node other
\* than the root holds fewer than ceil(ORDER / 2) - 1 keys.
C19_TraverseUnderFill ==
    (Running /\ \E n \in DOMAIN heap : n # root /\ heap[n].len < MinimumFill)
      => traverse(heap, root) = "node length is less than ORDER / 2 - 1"

\* C20: with ORDER = 3, after insert 1, 2, 3, 4, 5: traverse() does not
\* raise, size() = 5 and getRank(3) = 2; then remove(3) returns true, after
\* which find(3) is invalid and size() = 4.
C20_ScenarioOrder3 ==
    (ORDER = 3 /\ lastOp = [op |-> "insert", key |-> 5, ret |-> FALSE]
       /\ DOMAIN live = 1..5)
      => /\ Running
         /\ traverse(heap, root) = "none"
         /\ size(heap, root) = 5
         /\ getRank(heap, root, 3) = 2
         /\ \E r \in {remove(heap, root, 3)} :
              /\ r.err = "none" /\ r.ret
              /\ ~valid(find(r.h, r.root, 3))
              /\ size(r.h, r.root) = 4

\* C20 witness: the scenario has run: with ORDER = 3, remove(3) has returned
\* true on the tree built by insert 1, 2, 3, 4, 5.
C20_Witness ==
    /\ ORDER = 3 /\ Running
    /\ lastOp = [op |-> "remove", key |-> 3, ret |-> TRUE]
    /\ DOMAIN live = {1, 2, 4, 5}
    /\ ~valid(find(heap, root, 3)) /\ size(heap, root) = 4

\* C21: with ORDER = 4, after inserting 10, 20, ..., 200 in ascending order
\* and while removing 20, 40, ..., 200 in ascending order, after each removal
\* every node other than the root holds at least 1 key and every internal
\* node has size = len + the sum of its children's sizes: traverse() raises
\* nothing.  (Stated for every number of keys inserted up to the bound.)
C21_ScenarioEveryOther ==
    (ORDER = 4 /\ lastOp.op = "remove") =>
      /\ Running /\ lastOp.ret
      /\ \A n \in DOMAIN heap \ {root} : heap[n].len >= 1
      /\ \A n \in DOMAIN heap :
           ~heap[n].isLeaf =>
             heap[n].size = heap[n].len
                            + SumSizes(heap, SubSeq(heap[n].children, 1, heap[n].len + 1))
      /\ traverse(heap, root) = "none"

\* C21 witness: with ORDER = 4 the whole scenario has run: the last of the
\* ten removals, remove(200), has returned and ten keys are left.
C21_Witness ==
    /\ ORDER = 4 /\ Running
    /\ lastOp = [op |-> "remove", key |-> 200, ret |-> TRUE]
    /\ DOMAIN live = {10 * i : i \in 1..20} \ {20 * i : i \in 1..10}
    /\ size(heap, root) = 10

\* the nodes the root reaches
Reachable(h, r) == {PreOrder(h, r)[i] : i \in 1..Len(PreOrder(h, r))}

\* C22: in every reachable state the allocated nodes are the nodes reachable
\* from the root, and destroying the tree destroys each of them exactly once.
C22_Ownership ==
    Running =>
      /\ DOMAIN heap = Reachable(heap, root)
      /\ \A n \in DOMAIN heap :
           Cardinality({i \in 1..Len(destroyTree(heap, root)) :
                          destroyTree(heap, root)[i] = n}) = 1

\* C23: every insert and remove call returns normally: none fails an
\* assertion or indexes a node's arrays out of range.
C23_CallsReturn ==
    failed = "none"

----------------------------------------------------------------------------
\* Contracts of the private methods, checked on the trees the program reaches

\* the heap insert hands to splitChild when the root r is full: a new root
\* above r
GrowRoot(h, r) ==
    [i \in DOMAIN h \cup {NewId(h)} |->
        IF i = NewId(h)
        THEN [BTreeNode(NULL) EXCEPT !.children = <<r>>, !.size = h[r].size]
        ELSE IF i = r THEN [h[r] EXCEPT !.parent = NewId(h)]
        ELSE h[i]]

\* the calls splitChild(parent, idx) insert can make on heap h: the child is
\* full and the parent is not
SplitCalls(h) ==
    {c \in (DOMAIN h) \X (0..(ORDER - 1)) :
        /\ ~h[c[1]].isLeaf /\ c[2] <= h[c[1]].len
        /\ h[c[1]].len < ORDER - 1
        /\ h[h[c[1]].children[c[2] + 1]].len = ORDER - 1}

\* what C24 says of splitChild(parent, idx) taking heap h to state t
SplitContract(h, t, parent, idx) ==
    LET p   == h[parent]
        old == p.children[idx + 1]
        c   == h[old]
        m   == ORDER \div 2 - 1       \* local index of the median
        p2  == t.h[parent]
        new == p2.children[idx + 2]
        c2  == t.h[old]
        z   == t.h[new]
    IN  /\ t.err = "none"
        /\ new \notin DOMAIN h
        /\ p2.keys = InsertAt(p.keys, idx, c.keys[m + 1])
        /\ p2.vals = InsertAt(p.vals, idx, c.vals[m + 1])
        /\ p2.children = InsertAt(p.children, idx + 1, new)
        /\ c2.keys = SubSeq(c.keys, 1, m) /\ c2.vals = SubSeq(c.vals, 1, m)
        /\ z.keys = SubSeq(c.keys, m + 2, ORDER - 1)
        /\ z.vals = SubSeq(c.vals, m + 2, ORDER - 1)
        /\ c2.len = Len(c2.keys) /\ z.len = Len(z.keys)
        /\ z.isLeaf = c.isLeaf /\ z.parent = parent /\ c2.parent = parent
        /\ c2.children = (IF c.isLeaf THEN <<>> ELSE SubSeq(c.children, 1, m + 1))
        /\ z.children = (IF c.isLeaf THEN <<>> ELSE SubSeq(c.children, m + 2, ORDER))
        /\ \A j \in 1..Len(z.children) : t.h[z.children[j]].parent = new
        /\ c2.size + z.size + 1 = c.size
        /\ c2.size = c2.len + SumSizes(t.h, c2.children)
        /\ z.size = z.len + SumSizes(t.h, z.children)
        /\ p2.len = p.len + 1
        /\ Len(p2.children) = Len(p.children) + 1
        /\ p2.size = p.size

\* C24: splitChild on a child with ORDER - 1 keys promotes the key at local
\* index ORDER / 2 - 1 into the parent at idx, keeps the keys below it in the
\* old child and moves the keys above it, with their children re-parented,
\* into a new sibling at idx + 1; the two halves' sizes and one add up to
\* the old size, each is its len plus its children's sizes, the parent gains
\* one key and one child and keeps its size.
C24_SplitContract ==
    Running =>
      /\ \A c \in SplitCalls(heap) :
           SplitContract(heap, splitChild(Ok(heap), c[1], c[2]), c[1], c[2])
      /\ heap[root].len = ORDER - 1 =>
           SplitContract(GrowRoot(heap, root),
                         splitChild(Ok(GrowRoot(heap, root)), NewId(heap), 0),
                         NewId(heap), 0)

\* C24 witness: an insert has returned and left, with ORDER = 4, an internal
\* node with 3 keys and 4 children below a parent that is not full: the
\* split of an internal child is among the calls the contract is checked on.
C24_Witness ==
    /\ Running /\ lastOp.op = "insert" /\ ORDER = 4
    /\ \E c \in SplitCalls(heap) : ~heap[heap[c[1]].children[c[2] + 1]].isLeaf

\* the calls merge(node, idx) whose arguments meet its assertion on heap h:
\* idx is the index of a key of node and both children hold at most
\* ORDER / 2 - 1 keys
MergeCalls(h) ==
    {c \in (DOMAIN h) \X (0..(ORDER - 2)) :
        /\ ~h[c[1]].isLeaf /\ c[2] < h[c[1]].len
        /\ h[h[c[1]].children[c[2] + 1]].len <= ORDER \div 2 - 1
        /\ h[h[c[1]].children[c[2] + 2]].len <= ORDER \div 2 - 1}

\* what C25 says of merge(node, idx) taking heap h to state t
MergeContract(h, t, node, idx) ==
    LET n     == h[node]
        left  == n.children[idx + 1]
        right == n.children[idx + 2]
        c     == h[left]
        s     == h[right]
        n2    == t.h[node]
        c2    == t.h[left]
    IN  /\ t.err = "none"
        /\ c2.keys = c.keys \o <<n.keys[idx + 1]>> \o s.keys
        /\ c2.vals = c.vals \o <<n.vals[idx + 1]>> \o s.vals
        /\ c2.len = c.len + s.len + 1
        /\ c2.children = c.children \o s.children
        /\ \A j \in 1..Len(s.children) : t.h[s.children[j]].parent = left
        /\ c2.size = c.size + s.size + 1
        /\ n2.len = n.len - 1
        /\ n2.keys = RemoveAt(n.keys, idx) /\ n2.vals = RemoveAt(n.vals, idx)
        /\ n2.children = RemoveAt(n.children, idx + 1)
        /\ n2.size = n.size
        /\ right \notin DOMAIN t.h
        /\ \A j \in 1..Len(s.children) : s.children[j] \in DOMAIN t.h
        /\ DOMAIN t.h = DOMAIN h \ {right}
        /\ InOrder(t.h, node) = InOrder(h, node)

\* C25: merge(node, idx) puts into children[idx] its keys, the separator
\* node.keys[idx] and the keys of children[idx + 1], with the right sibling's
\* children appended and re-parented; the merged size is the two sizes plus
\* one, the parent loses one key and one child and keeps its size, the right
\* sibling alone is destroyed, and the in-order walk below the parent is
\* unchanged.
C25_MergeContract ==
    Running =>
      \A c \in MergeCalls(heap) :
        MergeContract(heap, merge(Ok(heap), c[1], c[2]), c[1], c[2])

\* C25 witness: a remove has returned true and the tree, with ORDER = 4,
\* holds two adjacent internal nodes of one key each: the merge of internal
\* children is among the calls the contract is checked on.
C25_Witness ==
    /\ Running /\ lastOp.op = "remove" /\ lastOp.ret /\ ORDER = 4
    /\ \E c \in MergeCalls(heap) :
         /\ ~heap[heap[c[1]].children[c[2] + 1]].isLeaf
         /\ heap[heap[c[1]].children[c[2] + 1]].len = 1
         /\ heap[heap[c[1]].children[c[2] + 2]].len = 1

\* the calls borrowFromPrev(node, idx) fill can make on heap h: the child at
\* idx is short of keys and its left sibling holds at least ORDER / 2
BorrowPrevCalls(h) ==
    {c \in (DOMAIN h) \X (1..(ORDER - 1)) :
        /\ ~h[c[1]].isLeaf /\ c[2] <= h[c[1]].len
        /\ h[h[c[1]].children[c[2] + 1]].len < ORDER \div 2
        /\ h[h[c[1]].children[c[2]]].len >= ORDER \div 2}

\* the calls borrowFromNext(node, idx) fill can make on heap h
BorrowNextCalls(h) ==
    {c \in (DOMAIN h) \X (0..(ORDER - 2)) :
        /\ ~h[c[1]].isLeaf /\ c[2] < h[c[1]].len
        /\ ~(c[2] # 0 /\ h[h[c[1]].children[c[2]]].len >= ORDER \div 2)
        /\ h[h[c[1]].children[c[2] + 1]].len < ORDER \div 2
        /\ h[h[c[1]].children[c[2] + 2]].len >= ORDER \div 2}

\* a borrow taking heap h to state t: the receiver's len and size have grown
\* by one and by 1 + extra, the donor's have shrunk by as much
BorrowChanges(h, t, receiver, donor, extra) ==
    /\ t.err = "none"
    /\ t.h[receiver].len = h[receiver].len + 1
    /\ t.h[donor].len = h[donor].len - 1
    /\ t.h[receiver].size = h[receiver].size + 1 + extra
    /\ t.h[donor].size = h[donor].size - 1 - extra

\* the size of the child a borrow moves from the donor: its last child for
\* borrowFromPrev, its first for borrowFromNext; 0 between leaves
MovedSize(h, donor, last) ==
    IF h[donor].isLeaf THEN 0
    ELSE h[h[donor].children[IF last THEN h[donor].len + 1 ELSE 1]].size

\* C26 as stated: borrowFromPrev and borrowFromNext change the receiving
\* child's len and size by exactly +1 and the donating sibling's len and size
\* by exactly -1, for leaf and internal children alike.
C26_BorrowByOne ==
    Running =>
      /\ \A c \in BorrowPrevCalls(heap) :
           BorrowChanges(heap, borrowFromPrev(Ok(heap), c[1], c[2]),
                         heap[c[1]].children[c[2] + 1], heap[c[1]].children[c[2]], 0)
      /\ \A c \in BorrowNextCalls(heap) :
           BorrowChanges(heap, borrowFromNext(Ok(heap), c[1], c[2]),
                         heap[c[1]].children[c[2] + 1], heap[c[1]].children[c[2] + 2], 0)

\* C26 amended: the lens change by exactly +1 and -1; the sizes change by
\* +(1 + s) and -(1 + s), s the size of the child moved from the donor to
\* the receiver (0 between leaves).
C26_BorrowMovesSubtree ==
    Running =>
      /\ \A c \in BorrowPrevCalls(heap) :
           BorrowChanges(heap, borrowFromPrev(Ok(heap), c[1], c[2]),
                         heap[c[1]].children[c[2] + 1], heap[c[1]].children[c[2]],
                         MovedSize(heap, heap[c[1]].children[c[2]], TRUE))
      /\ \A c \in BorrowNextCalls(heap) :
           BorrowChanges(heap, borrowFromNext(Ok(heap), c[1], c[2]),
                         heap[c[1]].children[c[2] + 1], heap[c[1]].children[c[2] + 2],
                         MovedSize(heap, heap[c[1]].children[c[2] + 2], FALSE))

\* C26 witness: a remove has returned true and the tree holds an internal
\* node short of keys whose left sibling can lend one, the child that would
\* move with it not empty.
C26_Witness ==
    /\ Running /\ lastOp.op = "remove" /\ lastOp.ret
    /\ \E c \in BorrowPrevCalls(heap) :
         MovedSize(heap, heap[c[1]].children[c[2]], TRUE) > 0

----------------------------------------------------------------------------
\* The descent of insert

\* the way into the root: no split, no separators around it
NoEdge == [split |-> FALSE, below |-> {}, above |-> {}]

\* insertNonFull without the split of a full child
RECURSIVE EnteredNoSplit(_, _, _, _)
EnteredNoSplit(t, node, key, edge) ==
    IF t.err # "none" THEN <<>> ELSE
    LET n   == t.h[node]
        idx == locate(n, key)
        \* the entry at this node, then those of the descent from state t1
        next(t1, full) ==
            LET n1   == t1.h[node]
                idx1 == IF full /\ key > n1.keys[idx + 1] THEN idx + 1 ELSE idx
            IN  EnteredNoSplit(t1, n1.children[idx1 + 1], key,
                        [split |-> full,
                         below |-> {n1.keys[j] : j \in {idx1} \cap (1..n1.len)},
                         above |-> {n1.keys[j] : j \in {idx1 + 1} \cap (1..n1.len)}])
    IN  <<[len |-> n.len, isLeaf |-> n.isLeaf, edge |-> edge]>> \o
        (IF n.isLeaf THEN <<>>
         ELSE next(t, FALSE))

\* The nodes insertNonFull(node, key) is entered on from state t, root first:
\* the len of each at entry, and its edge: whether its parent split a child
\* just before, and the parent's keys next to it on both sides at that time.
RECURSIVE Entered(_, _, _, _)
Entered(t, node, key, edge) ==
    IF t.err # "none" THEN <<>> ELSE
    LET n   == t.h[node]
        idx == locate(n, key)
        \* the entry at this node, then those of the descent from state t1
        next(t1, full) ==
            LET n1   == t1.h[node]
                idx1 == IF full /\ key > n1.keys[idx + 1] THEN idx + 1 ELSE idx
            IN  Entered(t1, n1.children[idx1 + 1], key,
                        [split |-> full,
                         below |-> {n1.keys[j] : j \in {idx1} \cap (1..n1.len)},
                         above |-> {n1.keys[j] : j \in {idx1 + 1} \cap (1..n1.len)}])
    IN  <<[len |-> n.len, isLeaf |-> n.isLeaf, edge |-> edge]>> \o
        (IF n.isLeaf THEN <<>>
         ELSE IF t.h[n.children[idx + 1]].len = ORDER - 1
              THEN next(splitChild(t, node, idx), TRUE)
              ELSE next(t, FALSE))

\* the nodes insertNonFull is entered on by insert(key) on heap h with root r
InsertEntries(h, r, key) ==
    IF h[r].len = ORDER - 1
    THEN Entered(splitChild(Ok(GrowRoot(h, r)), NewId(h), 0), NewId(h), key, NoEdge)
    ELSE Entered(Ok(h), r, key, NoEdge)

\* every node of the descent es was entered with fewer than ORDER - 1 keys,
\* between parent keys that enclose key
NonFullDescent(es, key) ==
    /\ Len(es) >= 1 /\ es[Len(es)].isLeaf
    /\ \A i \in 1..Len(es) :
         /\ es[i].len < ORDER - 1
         /\ \A b \in es[i].edge.below : b < key
         /\ \A a \in es[i].edge.above : key <= a

\* C27: on every tree the program reaches, for every key, insert enters
\* insertNonFull only on nodes with fewer than ORDER - 1 keys (a full root and
\* a full child are split first), down to a leaf, and each node entered lies
\* between the parent keys that enclose the new key, after a split too.
C27_DescentNonFull ==
    Running => \A k \in EveryKey : NonFullDescent(InsertEntries(heap, root, k), k)

\* C27 witness: an insert has returned and left a full root over a full
\* child on the path of some key: the next insert of that key splits the root
\* and then the child before entering it.
C27_Witness ==
    /\ Running /\ lastOp.op = "insert" /\ heap[root].len = ORDER - 1
    /\ ~heap[root].isLeaf
    /\ \E k \in EveryKey : \E i \in 3..(MaxSize + 2) :
         /\ i <= Len(InsertEntries(heap, root, k))
         /\ InsertEntries(heap, root, k)[i].edge.split

----------------------------------------------------------------------------
\* The descent of remove

\* The call removeFromLeaf(leaf, idx) that doRemove(node, key) reaches from
\* state t, with the heap at the time of the call: a set of one record, empty
\* when the key is not found or the program fails before the call.
RECURSIVE DeletionOf(_, _, _)
RECURSIVE DeletionFromNonLeaf(_, _, _)

\* removeFromNonLeaf(node, idx) up to its call of removeFromLeaf
DeletionFromNonLeaf(t, node, idx) ==
    IF t.err # "none" THEN {} ELSE
    LET h == t.h
        n == h[node]
        \* node->keys[idx] and vals[idx] overwritten with the cursor's
        replaced(cur) ==
            IF cur.err # "none" THEN {}
            ELSE {[h |-> [h EXCEPT ![node].keys = SetAt(n.keys, idx, CursorKey(h, cur)),
                                   ![node].vals = SetAt(n.vals, idx, CursorVal(h, cur))],
                   leaf |-> cur.node, idx |-> cur.idx, path |-> "substituted"]}
    IN  IF h[n.children[idx + 1]].len >= ORDER \div 2
        THEN replaced(getPredecessor(h, node, idx))
        ELSE IF h[n.children[idx + 2]].len >= ORDER \div 2
        THEN replaced(getSuccessor(h, node, idx))
        ELSE DeletionOf(merge(t, node, idx), n.children[idx + 1], n.keys[idx + 1])

\* doRemove(node, key) up to the call of removeFromLeaf
DeletionOf(t, node, key) ==
    IF t.err # "none" THEN {} ELSE
    LET h   == t.h
        n   == h[node]
        idx == locate(n, key)
        flag == (idx = n.len)
        descend(t1) ==
            IF t1.err # "none" THEN {}
            ELSE IF flag /\ idx > t1.h[node].len
            THEN DeletionOf(t1, t1.h[node].children[idx], key)
            ELSE DeletionOf(t1, t1.h[node].children[idx + 1], key)
    IN  IF idx < n.len /\ ~Cmp(key, n.keys[idx + 1])
        THEN IF n.isLeaf
             THEN {[h |-> h, leaf |-> node, idx |-> idx, path |-> "direct"]}
             ELSE DeletionFromNonLeaf(t, node, idx)
        ELSE IF n.isLeaf THEN {}
        ELSE descend(IF h[n.children[idx + 1]].len < ORDER \div 2
                     THEN fill(t, node, idx) ELSE t)

\* at the deletion d the leaf, when not the root, and its ancestors below
\* the root hold at least ORDER / 2 keys
RepairedOnTheWay(d) ==
    d.h[d.leaf].parent # NULL =>
        \A a \in Ancestors(d.h, d.leaf) :
            d.h[a].parent # NULL => d.h[a].len >= ORDER \div 2

\* C28: on every tree the program reaches, for every key, when remove comes
\* to delete a key from a leaf that is not the root (the target's leaf or
\* the leaf of the substituted predecessor or successor), that leaf and every
\* ancestor of it below the root hold at least ORDER / 2 keys.
C28_RepairedAtDeletion ==
    Running => \A k \in EveryKey :
                 \A d \in DeletionOf(Ok(heap), root, k) : RepairedOnTheWay(d)

\* C29: no call ends in removeFromLeaf's assertion
\* node->parent->children[nIdx].ptr == node: the index located in the parent
\* with the underflowed leaf's keys[0] is the leaf's own, on the direct, the
\* predecessor and the successor path.
C29_LeafIndexFound ==
    failed # "assert: node->parent->children[nIdx].ptr == node"

\* C30: no call ends in a fill or merge outside its contract: merge is never
\* called with idx < 0 or idx >= node.len (fill on a parent without keys
\* computes idx - 1 for idx = 0), and its assertion on the two children's
\* lens never fails.
C30_FillMergeInRange ==
    failed \notin Outcomes("out of range: merge children[idx]")

----------------------------------------------------------------------------
\* The repairs of remove

\* The number of repairs (calls of fill, and of merge by removeFromNonLeaf)
\* that doRemove(node, key) makes from state t before it returns or fails.
RECURSIVE RepairsOf(_, _, _)
RECURSIVE RepairsFromNonLeaf(_, _, _)

\* removeFromLeaf(node, idx): one fill when the leaf underflows below a
\* parent and the assertion on its index passes
RepairsFromLeaf(t, node, idx) ==
    IF t.err # "none" \/ ~(idx < t.h[node].len) THEN 0
    ELSE IF /\ t.h[node].len - 1 < ORDER \div 2
            /\ t.h[node].parent # NULL
            /\ removeFromLeaf(t, node, idx).err
                   # "assert: node->parent->children[nIdx].ptr == node"
         THEN 1 ELSE 0

\* removeFromNonLeaf(node, idx)
RepairsFromNonLeaf(t, node, idx) ==
    IF t.err # "none" THEN 0 ELSE
    LET h == t.h
        n == h[node]
        \* node->keys[idx] and vals[idx] overwritten, then removeFromLeaf
        replaced(cur) ==
            IF cur.err # "none" THEN 0
            ELSE RepairsFromLeaf(
                    [t EXCEPT !.h[node].keys = SetAt(n.keys, idx, CursorKey(h, cur)),
                              !.h[node].vals = SetAt(n.vals, idx, CursorVal(h, cur))],
                    cur.node, cur.idx)
    IN  IF h[n.children[idx + 1]].len >= ORDER \div 2
        THEN replaced(getPredecessor(h, node, idx))
        ELSE IF h[n.children[idx + 2]].len >= ORDER \div 2
        THEN replaced(getSuccessor(h, node, idx))
        ELSE 1 + RepairsOf(merge(t, node, idx), n.children[idx + 1], n.keys[idx + 1])

\* doRemove(node, key)
RepairsOf(t, node, key) ==
    IF t.err # "none" THEN 0 ELSE
    LET h   == t.h
        n   == h[node]
        idx == locate(n, key)
        flag == (idx = n.len)
        descend(t1) ==
            IF t1.err # "none" THEN 0
            ELSE IF flag /\ idx > t1.h[node].len
            THEN RepairsOf(t1, t1.h[node].children[idx], key)
            ELSE RepairsOf(t1, t1.h[node].children[idx + 1], key)
    IN  IF idx < n.len /\ ~Cmp(key, n.keys[idx + 1])
        THEN IF n.isLeaf THEN RepairsFromLeaf(t, node, idx)
             ELSE RepairsFromNonLeaf(t, node, idx)
        ELSE IF n.isLeaf THEN 0
        ELSE IF h[n.children[idx + 1]].len < ORDER \div 2
        THEN 1 + descend(fill(t, node, idx))
        ELSE descend(t)

\* C31: with ORDER = 3, on the tree left by insert 1, 2, 3, 4, 5 in this
\* order, remove(3) makes at least one repair (a fill or a merge).
C31_RemoveFills ==
    (/\ Running /\ ORDER = 3 /\ lastOp.op = "insert" /\ lastOp.key = 5
     /\ DOMAIN live = 1..5)
        => RepairsOf(Ok(heap), root, 3) >= 1

\* C32: traverse raises no order violation on a tree whose in-order key
\* sequence is strictly increasing, whatever the keys are, keys below -1
\* included.
C32_TraverseAcceptsIncreasing ==
    (Running /\ StrictlyIncreasing(KeysOf(Entries(heap, root))))
        => traverse(heap, root) # "order violation"

----------------------------------------------------------------------------
(***************************************************************************)
(* ThreadPool (src/thread_pool.h).                                         *)
(*                                                                         *)
(* Workers run slave(); clients call enqueue and waitFinish, and the first *)
(* client, the owner, destroys the pool.  Every access to the members is   *)
(* made with mtx held, so a thread's steps are: taking the mutex, and what *)
(* it does from there until it releases the mutex or blocks in a wait.     *)
(* A condition variable's waiters are the threads whose pc is "blocked":   *)
(* workers wait on cond, clients on cond_done.  wait(lk, pred) returns     *)
(* only when pred holds, so a wake-up without notification changes         *)
(* nothing a thread can observe and is left out.  num_busy_threads has no  *)
(* initializer: the constructor leaves it indeterminate.                   *)
(***************************************************************************)

Workers == 1..NumWorkers
Clients == (NumWorkers + 1)..(NumWorkers + NumClients)
\* the thread that owns the pool and runs its destructor
Owner == NumWorkers + 1
Tasks == 1..MaxTasks
\* the values an int that was never initialized can hold
Indeterminate == (0 - MaxGarbage)..MaxGarbage

\* the tree that stands by while a ThreadPool runs
NoTree ==
    /\ ORDER = MinOrder
    /\ heap = (1 :> BTreeLeaf(NULL))
    /\ root = 1
    /\ failed = "none"
    /\ live = <<>>
    /\ lastOp = [op |-> "new", key |-> 0, ret |-> FALSE]

\* ThreadPool(thread_num): the workers are started, the members hold their
\* default values, num_busy_threads holds whatever its storage held
InitPool ==
    /\ NoTree
    /\ tasks = <<>>
    /\ num_busy_threads \in Indeterminate
    /\ over = FALSE
    /\ mtx = NULL
    /\ pc = [t \in Workers \cup Clients |-> IF t \in Workers THEN "lock" ELSE "idle"]
    /\ tsk = [w \in Workers |-> 0]
    /\ accepted = 0
    /\ executed = [t \in Tasks |-> 0]
    /\ NoStat

\* exit(-1) has not been called
Alive == \A c \in Clients : pc[c] # "exit"

\* pc after notify_one on a condition variable whose waiters are the
\* blocked threads of W: one of them, any, is woken; nobody if none waits
NotifyOne(W, p) ==
    {[p EXCEPT ![t] = "notified"] : t \in {x \in W : p[x] = "blocked"}}
        \cup (IF \E x \in W : p[x] = "blocked" THEN {} ELSE {p})

\* pc after notify_all: every waiter is woken
NotifyAll(W, p) ==
    [t \in DOMAIN p |-> IF t \in W /\ p[t] = "blocked" THEN "notified" ELSE p[t]]

\* slave: std::unique_lock lk(mtx), and the mutex taken again inside
\* cond.wait after a notification
SlaveLock(w) ==
    /\ pc[w] \in {"lock", "notified"} /\ mtx = NULL
    /\ mtx' = w
    /\ pc' = [pc EXCEPT ![w] = "wait"]
    /\ UNCHANGED <<tasks, num_busy_threads, over, tsk, accepted, executed, treeVars, statVars>>

\* slave: cond.wait finds its predicate false, releases the mutex and blocks
SlaveBlock(w) ==
    /\ pc[w] = "wait" /\ ~(over \/ tasks # <<>>)
    /\ mtx' = NULL
    /\ pc' = [pc EXCEPT ![w] = "blocked"]
    /\ UNCHANGED <<tasks, num_busy_threads, over, tsk, accepted, executed, treeVars, statVars>>

\* slave: if (over) break; lk is released as the thread leaves the loop
SlaveBreak(w) ==
    /\ pc[w] = "wait" /\ over
    /\ mtx' = NULL
    /\ pc' = [pc EXCEPT ![w] = "exited"]
    /\ UNCHANGED <<tasks, num_busy_threads, over, tsk, accepted, executed, treeVars, statVars>>

\* slave: tsk = tasks.front(); tasks.pop(); num_busy_threads++; lk.unlock()
SlaveTake(w) ==
    /\ pc[w] = "wait" /\ ~over /\ tasks # <<>>
    /\ tsk' = [tsk EXCEPT ![w] = Head(tasks)]
    /\ tasks' = Tail(tasks)
    /\ num_busy_threads' = num_busy_threads + 1
    /\ mtx' = NULL
    /\ pc' = [pc EXCEPT ![w] = "run"]
    /\ UNCHANGED <<over, accepted, executed, treeVars, statVars>>

\* slave: tsk()
SlaveRun(w) ==
    /\ pc[w] = "run" /\ Alive
    /\ executed' = [executed EXCEPT ![tsk[w]] = @ + 1]
    /\ pc' = [pc EXCEPT ![w] = "relock"]
    /\ UNCHANGED <<tasks, num_busy_threads, over, mtx, tsk, accepted, treeVars, statVars>>

\* slave: lk.lock()
SlaveRelock(w) ==
    /\ pc[w] = "relock" /\ mtx = NULL
    /\ mtx' = w
    /\ pc' = [pc EXCEPT ![w] = "finish"]
    /\ UNCHANGED <<tasks, num_busy_threads, over, tsk, accepted, executed, treeVars, statVars>>

\* slave: num_busy_threads--; cond_done.notify_one(); lk is released at the
\* end of the loop body
SlaveFinish(w) ==
    /\ pc[w] = "finish"
    /\ num_busy_threads' = num_busy_threads - 1
    /\ mtx' = NULL
    /\ pc' \in NotifyOne(Clients, [pc EXCEPT ![w] = "lock"])
    /\ UNCHANGED <<tasks, over, tsk, accepted, executed, treeVars, statVars>>

\* enqueue: std::unique_lock lk(mtx); called at most MaxTasks times
EnqueueLock(c) ==
    /\ pc[c] = "idle" /\ mtx = NULL /\ accepted < MaxTasks
    /\ mtx' = c
    /\ pc' = [pc EXCEPT ![c] = "enqueue"]
    /\ UNCHANGED <<tasks, num_busy_threads, over, tsk, accepted, executed, treeVars, statVars>>

\* enqueue: if (over) { puts(...); exit(-1); }
EnqueueOver(c) ==
    /\ pc[c] = "enqueue" /\ over
    /\ pc' = [pc EXCEPT ![c] = "exit"]
    /\ UNCHANGED <<tasks, num_busy_threads, over, mtx, tsk, accepted, executed, treeVars, statVars>>

\* enqueue: tasks.push(task); cond.notify_one(); lk is released on return
Enqueue(c) ==
    /\ pc[c] = "enqueue" /\ ~over
    /\ tasks' = Append(tasks, accepted + 1)
    /\ accepted' = accepted + 1
    /\ mtx' = NULL
    /\ pc' \in NotifyOne(Workers, [pc EXCEPT ![c] = "idle"])
    /\ UNCHANGED <<num_busy_threads, over, tsk, executed, treeVars, statVars>>

\* waitFinish: std::unique_lock lk(mtx)
WaitFinishLock(c) ==
    /\ pc[c] = "idle" /\ mtx = NULL
    /\ mtx' = c
    /\ pc' = [pc EXCEPT ![c] = "waitFinish"]
    /\ UNCHANGED <<tasks, num_busy_threads, over, tsk, accepted, executed, treeVars, statVars>>

\* waitFinish: the mutex taken again inside cond_done.wait after a
\* notification
WaitFinishWake(c) ==
    /\ pc[c] = "notified" /\ mtx = NULL
    /\ mtx' = c
    /\ pc' = [pc EXCEPT ![c] = "waitFinish"]
    /\ UNCHANGED <<tasks, num_busy_threads, over, tsk, accepted, executed, treeVars, statVars>>

\* the predicate of waitFinish
Finished == tasks = <<>> /\ num_busy_threads = 0

\* waitFinish: cond_done.wait finds its predicate false and blocks
WaitFinishBlock(c) ==
    /\ pc[c] = "waitFinish" /\ ~Finished
    /\ mtx' = NULL
    /\ pc' = [pc EXCEPT ![c] = "blocked"]
    /\ UNCHANGED <<tasks, num_busy_threads, over, tsk, accepted, executed, treeVars, statVars>>

\* waitFinish: the predicate holds, the call returns
WaitFinishReturn(c) ==
    /\ pc[c] = "waitFinish" /\ Finished
    /\ mtx' = NULL
    /\ pc' = [pc EXCEPT ![c] = "idle"]
    /\ UNCHANGED <<tasks, num_busy_threads, over, tsk, accepted, executed, treeVars, statVars>>

\* ~ThreadPool: std::unique_lock lk(mtx)
DestructorLock ==
    /\ pc[Owner] = "idle" /\ mtx = NULL /\ ~over
    /\ mtx' = Owner
    /\ pc' = [pc EXCEPT ![Owner] = "destroy"]
    /\ UNCHANGED <<tasks, num_busy_threads, over, tsk, accepted, executed, treeVars, statVars>>

\* ~ThreadPool: over = true; cond.notify_all(); lk is released
DestructorOver ==
    /\ pc[Owner] = "destroy"
    /\ over' = TRUE
    /\ mtx' = NULL
    /\ pc' = NotifyAll(Workers, [pc EXCEPT ![Owner] = "join"])
    /\ UNCHANGED <<tasks, num_busy_threads, tsk, accepted, executed, treeVars, statVars>>

\* ~ThreadPool: every t.join() has returned, and the members are destroyed
\* as the destructor returns.  Destroying cond_done while a thread is blocked
\* on it in waitFinish is undefined; the destruction waits for the blocked
\* threads to leave the wait, and with the workers gone nobody notifies
\* them: the destructor does not return.
DestructorJoin ==
    /\ pc[Owner] = "join" /\ Alive
    /\ \A w \in Workers : pc[w] = "exited"
    /\ \A c \in Clients : pc[c] # "blocked"
    /\ pc' = [pc EXCEPT ![Owner] = "destroyed"]
    /\ UNCHANGED <<tasks, num_busy_threads, over, mtx, tsk, accepted, executed, treeVars, statVars>>

\* a step of worker w
Slave(w) ==
    \/ SlaveLock(w)
    \/ SlaveBlock(w)
    \/ SlaveBreak(w)
    \/ SlaveTake(w)
    \/ SlaveRun(w)
    \/ SlaveRelock(w)
    \/ SlaveFinish(w)

\* a step of client c inside enqueue or waitFinish
Caller(c) ==
    \/ EnqueueLock(c)
    \/ EnqueueOver(c)
    \/ Enqueue(c)
    \/ WaitFinishLock(c)
    \/ WaitFinishWake(c)
    \/ WaitFinishBlock(c)
    \/ WaitFinishReturn(c)

\* a step of the destructor
Destructor ==
    \/ DestructorLock
    \/ DestructorOver
    \/ DestructorJoin

NextPool ==
    \/ \E w \in Workers : Slave(w)
    \/ \E c \in Clients : Caller(c)
    \/ Destructor

SpecPool == InitPool /\ [][NextPool]_vars

\* what a client that has called a method goes on to do without choosing
Returning(c) ==
    \/ EnqueueOver(c)
    \/ Enqueue(c)
    \/ WaitFinishWake(c)
    \/ WaitFinishBlock(c)
    \/ WaitFinishReturn(c)

\* The scheduler lets every worker run, every call that has taken the mutex
\* proceed, every notified waiter take the mutex once it stays free, and
\* the destructor go on while no thread blocked in waitFinish holds it up;
\* clients call when they choose.
SpecPoolFair ==
    /\ SpecPool
    /\ \A w \in Workers : WF_vars(Slave(w))
    /\ \A c \in Clients : WF_vars(Returning(c))
    /\ WF_vars(DestructorOver \/ DestructorJoin)

\* the workers between tasks.pop() and num_busy_threads--
Busy == {w \in Workers : pc[w] \in {"run", "relock", "finish"}}

\* C33: when waitFinish returns, the queue is empty, no worker is executing
\* a task, and every task pushed by enqueue so far has been run.
C33_WaitFinishMeansDone ==
    [][\A c \in Clients :
          (pc[c] = "waitFinish" /\ pc'[c] = "idle") =>
              /\ tasks = <<>>
              /\ \A w \in Workers : pc[w] # "run"
              /\ \A t \in 1..accepted : executed[t] >= 1]_vars

\* C34: whenever the mutex is free, num_busy_threads is the number of
\* workers that have dequeued a task and not yet finished with it (taken
\* up to the decrement that ends slave's round); in particular it is 0
\* right after construction.
C34_BusyCount ==
    mtx = NULL => num_busy_threads = Cardinality(Busy)

\* C35: no task is run twice, and once the destructor has returned every
\* task pushed by enqueue has been run exactly once.
C35_EveryTaskRunOnce ==
    /\ \A t \in Tasks : executed[t] <= 1
    /\ pc[Owner] = "destroyed" => \A t \in 1..accepted : executed[t] = 1

\* C36: every call of waitFinish returns (unless the pool is destroyed
\* first), two calls blocked at the same time included; taken with
\* num_busy_threads starting at 0, the value C34 states.
C36_WaitFinishReturns ==
    (num_busy_threads = 0) =>
        \A c \in Clients :
            [](pc[c] \in {"waitFinish", "blocked", "notified"}
                  => <>(pc[c] = "idle" \/ over))


----------------------------------------------------------------------------
\* hwstat (src/unnamed/part_000): a GlobalStat<PerThreadCounter> defined by
\* COUNTER(name) at namespace scope, the thread_local PerThreadCounter of
\* each thread that uses it, and a thread that reads it with calcStat

NumCounters == 2    \* threads that own a PerThreadCounter
MaxCount == 1       \* a counter is kept within this distance of 0 (modulo 2^64)

CounterThreads == 1..NumCounters
Reader == NumCounters + 1    \* the thread that calls calcStat

\* uint64_t: a value is the sequence of its four 16-bit limbs, the least
\* significant first (18446744073709551615 is <<65535, 65535, 65535, 65535>>)
Limb == 65536

\* the conversion of an int d, -Limb < d < Limb, to uint64_t
FromInt(d) ==
    IF d >= 0 THEN <<d, 0, 0, 0>>
    ELSE <<Limb + d, Limb - 1, Limb - 1, Limb - 1>>

\* a + b in uint64_t: the sum modulo 2^64
PlusU64(a, b) ==
    LET s1 == a[1] + b[1]
        s2 == a[2] + b[2] + s1 \div Limb
        s3 == a[3] + b[3] + s2 \div Limb
        s4 == a[4] + b[4] + s3 \div Limb
    IN  <<s1 % Limb, s2 % Limb, s3 % Limb, s4 % Limb>>

\* the counter values the model lets a counter take
Near == {FromInt(x) : x \in (0 - MaxCount)..MaxCount}

\* the arguments given to add(int d) and to operator+=(uint64_t d)
AddArgs == {0 - 1, 1}
PlusAssignArgs == {FromInt(2)}

\* the stat has static storage: agg is zero-initialized, then the constructor
\* leaves it alone; no thread has touched its counter yet (cnt = 0 is the
\* member's initializer)
InitStat ==
    /\ NoTree
    /\ NoPool
    /\ statAgg = FromInt(0)
    /\ instances = {}
    /\ cnt = [t \in CounterThreads |-> FromInt(0)]
    /\ statMtx = NULL
    /\ spc = [t \in CounterThreads \cup {Reader} |->
                  IF t \in CounterThreads THEN "unborn" ELSE "idle"]
    /\ nagg = FromInt(0)
    /\ it = 0
    /\ counted = [t \in CounterThreads |-> 0]

\* PerThreadCounter::aggregate of the counter of thread i
aggregate(i, prev) == PlusU64(prev, cnt[i])

\* the loop of calcStat walks the std::set in increasing order of the
\* instances' addresses; a counter is named by the rank of its address.
\* The instances still to read when the one read last is i
Ahead(i) == {x \in instances : x > i}

\* the counters ever registered with the stat
Registered == {t \in CounterThreads : spc[t] \in {"live", "dereg", "gone"}}

\* the contributions of every counter ever registered, each once (cnt[t]
\* keeps what the counter of t held when it was destroyed)
RECURSIVE SumOf(_, _)
SumOf(S, c) ==
    IF S = {} THEN FromInt(0)
    ELSE LET i == CHOOSE x \in S : TRUE IN PlusU64(c[i], SumOf(S \ {i}, c))

Contributions == SumOf(Registered, cnt)

\* PerThreadCounter(globalCounter) -> reg: lock_guard guard(mtx)
RegLock(t) ==
    /\ spc[t] = "unborn"
    /\ statMtx = NULL
    /\ statMtx' = t
    /\ spc' = [spc EXCEPT ![t] = "reg"]
    /\ UNCHANGED <<statAgg, instances, cnt, nagg, it, counted, treeVars, poolVars>>

\* reg: instances.insert(instance); the guard is released
Reg(t) ==
    /\ spc[t] = "reg"
    /\ instances' = instances \cup {t}
    /\ statMtx' = NULL
    /\ spc' = [spc EXCEPT ![t] = "live"]
    /\ UNCHANGED <<statAgg, cnt, nagg, it, counted, treeVars, poolVars>>

\* the thread changes its own counter by d, no lock taken
Bump(t, d) ==
    /\ spc[t] = "live"
    /\ PlusU64(cnt[t], d) \in Near
    /\ cnt' = [cnt EXCEPT ![t] = PlusU64(cnt[t], d)]
    /\ UNCHANGED <<statAgg, instances, statMtx, spc, nagg, it, counted, treeVars, poolVars>>

\* operator++() and operator++(int): ++cnt, cnt++
Increment(t) == Bump(t, FromInt(1))

\* add(int d = 1): cnt += d, d converted to uint64_t
add(t, d) == Bump(t, FromInt(d))

\* operator+=(uint64_t d): cnt += d
PlusAssign(t, d) == Bump(t, d)

\* the thread exits: ~PerThreadCounter -> dereg: lock_guard guard(mtx)
DeregLock(t) ==
    /\ spc[t] = "live"
    /\ statMtx = NULL
    /\ statMtx' = t
    /\ spc' = [spc EXCEPT ![t] = "dereg"]
    /\ UNCHANGED <<statAgg, instances, cnt, nagg, it, counted, treeVars, poolVars>>

\* dereg: agg = instance->aggregate(agg); instances.erase(instance)
Dereg(t) ==
    /\ spc[t] = "dereg"
    /\ statAgg' = aggregate(t, statAgg)
    /\ instances' = instances \ {t}
    /\ statMtx' = NULL
    /\ spc' = [spc EXCEPT ![t] = "gone"]
    /\ UNCHANGED <<cnt, nagg, it, counted, treeVars, poolVars>>

\* calcStat: auto nagg = agg, read before the mutex is taken.  (The read
\* races with the write of dereg; for the aligned 64-bit agg it yields the
\* value before or after that write, which are the two orders of the steps.)
\* agg holds the contributions of the counters deregistered so far.
CalcRead ==
    /\ spc[Reader] = "idle"
    /\ nagg' = statAgg
    /\ counted' = [t \in CounterThreads |-> IF spc[t] = "gone" THEN 1 ELSE 0]
    /\ spc' = [spc EXCEPT ![Reader] = "lock"]
    /\ UNCHANGED <<statAgg, instances, cnt, statMtx, it, treeVars, poolVars>>

\* calcStat: lock_guard guard(mtx); the loop starts at instances.begin()
CalcLock ==
    /\ spc[Reader] = "lock"
    /\ statMtx = NULL
    /\ statMtx' = Reader
    /\ it' = 0
    /\ spc' = [spc EXCEPT ![Reader] = "loop"]
    /\ UNCHANGED <<statAgg, instances, cnt, nagg, counted, treeVars, poolVars>>

\* calcStat: one turn of the loop, nagg = i->aggregate(nagg) for the next
\* instance.  The owner of a counter changes it without taking mtx, so its
\* steps fall between two turns.  (The read of cnt races with the owner's
\* write; for the aligned 64-bit cnt it yields the value before or after.)
CalcLoop ==
    /\ spc[Reader] = "loop"
    /\ Ahead(it) # {}
    /\ \E i \in Ahead(it) :
          /\ \A x \in Ahead(it) : i <= x
          /\ nagg' = aggregate(i, nagg)
          /\ counted' = [counted EXCEPT ![i] = counted[i] + 1]
          /\ it' = i
    /\ UNCHANGED <<statAgg, instances, cnt, statMtx, spc, treeVars, poolVars>>

\* calcStat: the loop has reached instances.end(): return nagg; the guard is
\* released
CalcReturn ==
    /\ spc[Reader] = "loop"
    /\ Ahead(it) = {}
    /\ statMtx' = NULL
    /\ it' = 0
    /\ counted' = [t \in CounterThreads |-> 0]
    /\ spc' = [spc EXCEPT ![Reader] = "idle"]
    /\ UNCHANGED <<statAgg, instances, cnt, nagg, treeVars, poolVars>>

CounterThread(t) ==
    \/ RegLock(t)
    \/ Reg(t)
    \/ Increment(t)
    \/ \E d \in AddArgs : add(t, d)
    \/ \E d \in PlusAssignArgs : PlusAssign(t, d)
    \/ DeregLock(t)
    \/ Dereg(t)

calcStat == CalcRead \/ CalcLock \/ CalcLoop \/ CalcReturn

NextStat ==
    \/ \E t \in CounterThreads : CounterThread(t)
    \/ calcStat

SpecStat == InitStat /\ [][NextStat]_vars

\* C37: what calcStat returns is the sum of the contributions of every
\* counter ever registered, each counted exactly once, also when a counter
\* deregisters during the call: when the call returns, no counter's
\* contribution has gone into the sum twice, and none but a contribution of
\* zero is missing from it.
C37_CalcStatCountsAll ==
    [][(spc[Reader] = "loop" /\ spc'[Reader] = "idle")
          => \A t \in Registered :
                 /\ counted[t] <= 1
                 /\ counted[t] = 0 => cnt[t] = FromInt(0)]_vars

=============================================================================
